---- MODULE Spec2Model ----
(***************************************************************************)
(* Verification model of the depfind ownership resolver: the dependency    *)
(* graph cache of GoDepFind, its maintenance under file events and the     *)
(* ThisFileIsMine decision procedure.                                       *)
(*                                                                         *)
(* The source tree (what `go list` and go/build see) is the variable       *)
(* `tree`; the seven cache fields of GoDepFind are variables of their own. *)
(* Every Go method that can fail or that iterates a Go map is modelled as  *)
(* the SET of its possible outcomes, so that callers quantify over them.   *)
(***************************************************************************)
EXTENDS Integers, Sequences, FiniteSets, TLC

\* ------------------------------------------------------------------ bounds
\* Depth of recursion granted to one transitive query before it is reported
\* as not terminating.
MaxDepth == 8
\* Number of edits of the source tree in one behaviour.
MaxEdits == 2
\* Number of calls that change a populated cache in one behaviour.
MaxEvents == 1
\* Longest import list of a package in the graphs the queries are run on.
MaxImports == 2

\* ------------------------------------------------------- the source universe
\* Import paths of the packages of module "mod"; the directory of a package
\* is its import path without the module prefix.
Units == {"mod/a/cmd", "mod/b/cmd", "mod/x", "mod/y"}
UnitOrder == <<"mod/a/cmd", "mod/b/cmd", "mod/x", "mod/y">>
LibUnits == {"mod/x", "mod/y"}

\* Directory of a package relative to the module root, as path components.
UnitDir(u) ==
    CASE u = "mod/a/cmd" -> <<"a", "cmd">>
      [] u = "mod/b/cmd" -> <<"b", "cmd">>
      [] u = "mod/x"     -> <<"x">>
      [] u = "mod/y"     -> <<"y">>

\* The package clause of the files of a directory.
UnitName(u) == IF u \in {"mod/a/cmd", "mod/b/cmd"} THEN "main" ELSE "lib"

\* Paths of the files, relative to the module root.
Files == {"a/cmd/main.server.go", "a/cmd/main.wasm.go", "b/cmd/main.go",
          "x/lib.go", "x/lib_test.go", "y/lib.go"}

FileUnit(f) ==
    CASE f \in {"a/cmd/main.server.go", "a/cmd/main.wasm.go"} -> "mod/a/cmd"
      [] f = "b/cmd/main.go" -> "mod/b/cmd"
      [] f \in {"x/lib.go", "x/lib_test.go"} -> "mod/x"
      [] f = "y/lib.go" -> "mod/y"

\* filepath.Base of a file path.
FileBase(f) ==
    CASE f = "a/cmd/main.server.go" -> "main.server.go"
      [] f = "a/cmd/main.wasm.go" -> "main.wasm.go"
      [] f = "b/cmd/main.go" -> "main.go"
      [] f = "x/lib.go" -> "lib.go"
      [] f = "x/lib_test.go" -> "lib_test.go"
      [] f = "y/lib.go" -> "lib.go"

\* "go": built by the default build context; "tagged": excluded from it by a
\* //go:build wasm constraint; "test": a _test.go file.
FileKind(f) ==
    CASE f = "a/cmd/main.wasm.go" -> "tagged"
      [] f = "x/lib_test.go" -> "test"
      [] OTHER -> "go"

\* filepath.Base of a sequence of path components.
Base(p) == IF Len(p) = 0 THEN "." ELSE p[Len(p)]

NoPkg == ""

VARIABLES
    tree,               \* the source tree: file -> [st, imports]
    rootRel,            \* New(rootDir) was given a relative rootDir
    listsLoadable,      \* `go list` prints the loadable packages beside an erroneous one
    testImports,
    cachedModule,
    packageCache,
    dependencyGraph,
    reverseDeps,
    filePathToPackage,
    fileToPackages,
    mainPackages,
    last,               \* the last call of the API and what it returned
    edits,
    events

vars == <<tree, rootRel, listsLoadable, testImports, cachedModule, packageCache,
          dependencyGraph,
          reverseDeps, filePathToPackage, fileToPackages, mainPackages, last,
          edits, events>>

\* ------------------------------------------------------------ map helpers
EmptyMap == [k \in {} |-> NoPkg]
MapPut(m, k, v) == [x \in (DOMAIN m) \cup {k} |-> IF x = k THEN v ELSE m[x]]
MapDel(m, k) == [x \in (DOMAIN m) \ {k} |-> m[x]]
\* A Go slice read from a map: the nil slice when the key is absent.
MapSeq(m, k) == IF k \in DOMAIN m THEN m[k] ELSE <<>>

Range(s) == {s[i] : i \in DOMAIN s}
\* The elements of S as the sorted list go/build returns.
SortedSeq(S) == SelectSeq(UnitOrder, LAMBDA u : u \in S)
\* The import paths S as the sorted list go/build keeps in Imports; "fmt" is
\* a package of the standard library, sorted before those of the module.
SortedImports(S) == (IF "fmt" \in S THEN <<"fmt">> ELSE <<>>) \o SortedSeq(S)
\* Every order in which a Go `range` over a map with key set S may visit it.
Orderings(S) ==
    {p \in [1..Cardinality(S) -> S] : \A i, j \in 1..Cardinality(S) : p[i] = p[j] => i = j}

\* The GoDepFind cache fields as one record.
G == [cachedModule |-> cachedModule, packageCache |-> packageCache,
      dependencyGraph |-> dependencyGraph, reverseDeps |-> reverseDeps,
      filePathToPackage |-> filePathToPackage, fileToPackages |-> fileToPackages,
      mainPackages |-> mainPackages]

\* ------------------------------------------------- the catalog provider
\* The states of a file that cannot be parsed: "bad" is empty or cut off
\* between tokens (the parser reports what it expected or an unexpected
\* EOF); "torn" is cut off inside a string literal or a comment (the parser
\* reports a literal or comment that is not terminated).
BrokenStates == {"bad", "torn"}

\* build.ImportDir of the directory of unit u on tree t.  A file that is
\* empty or cut off inside its header (a broken file) makes the import fail; a
\* directory without a buildable Go file gives NoGoError.
ImportDir(t, u) ==
    LET here == {f \in Files : FileUnit(f) = u /\ t[f].st # "absent"}
        gof == {f \in here : FileKind(f) = "go"}
        testf == {f \in here : FileKind(f) = "test"}
    IN IF (\E f \in here : t[f].st \in BrokenStates) \/ gof \cup testf = {}
       THEN [err |-> TRUE]
       ELSE [err |-> FALSE,
             pkg |-> [Dir |-> UnitDir(u), Name |-> UnitName(u),
                      Imports |-> UNION {t[f].imports : f \in gof},
                      TestImports |-> UNION {t[f].imports : f \in testf},
                      GoFiles |-> gof, TestGoFiles |-> testf]]

\* Packages `go list ./...` can describe, and those it reports an error for.
GoodUnits(t) == {u \in Units : ~ImportDir(t, u).err}
ErrUnits(t) ==
    {u \in Units : \E f \in Files : FileUnit(f) = u /\ t[f].st \in BrokenStates}

\* listPackages("./..."): the packages `go list` prints.  With an erroneous
\* package in the tree the command exits non-zero; whether it has printed the
\* packages it could load by then is a property of the go tool (listsLoadable).
\* Output, if there is any, is used and the exit status ignored.
listPackages ==
    LET good == GoodUnits(tree)
    IN IF ErrUnits(tree) = {} \/ (listsLoadable /\ good # {})
       THEN {[paths |-> good, err |-> FALSE]}
       ELSE {[paths |-> {}, err |-> TRUE]}

\* getPackages: one build.Package per listed path, or the first import error.
getPackages(paths) ==
    IF \E p \in paths : ImportDir(tree, p).err
    THEN [err |-> TRUE]
    ELSE [err |-> FALSE, packages |-> [p \in paths |-> ImportDir(tree, p).pkg]]

\* -------------------------------------------------------- slice helpers
contains(slice, item) == \E i \in DOMAIN slice : slice[i] = item

removeString(slice, item) ==
    IF ~contains(slice, item) THEN slice
    ELSE LET i == CHOOSE k \in DOMAIN slice :
                      slice[k] = item /\ \A j \in 1..(k - 1) : slice[j] # item
         IN SubSeq(slice, 1, i - 1) \o SubSeq(slice, i + 1, Len(slice))

\* reverseDeps[target] is a list whose order is never read; it is kept as
\* the number of times each dependent occurs in it.
NoDeps == [u \in Units |-> 0]

addReverseDep(rd, target, dependent) ==
    IF rd[target][dependent] > 0 THEN rd
    ELSE [rd EXCEPT ![target][dependent] = 1]

removeReverseDep(rd, target, dependent) ==
    IF rd[target][dependent] > 0
    THEN [rd EXCEPT ![target][dependent] = @ - 1]
    ELSE rd

\* The key under which a file is recorded by rebuildCache:
\* filepath.Join(pkg.Dir, file), which is relative when rootDir is.
RebuildKey(f) == <<IF rootRel THEN "rel" ELSE "abs", f>>
\* The key filepath.Abs gives for a file.
AbsKey(f) == <<"abs", f>>
\* The key filepath.Rel(cwd, abs) gives: it can only meet a recorded key when
\* the keys were recorded relative to the working directory.
RelKey(f) == <<"rel", f>>

\* ------------------------------------------------------------ rebuildCache
\* The files rebuildCache indexes for a package.
IndexedFiles(pkg) == pkg.GoFiles \cup (IF testImports THEN pkg.TestGoFiles ELSE {})

\* The cache rebuildCache builds from `packages`, visiting the map in order fo
\* when it fills the file indices.  mainPackages is only ever searched or
\* iterated in full (its order shows in nothing but the order of the list
\* GoFileComesFromMain returns), so it is kept sorted.
Rebuilt(packages, fo) ==
    LET ps == DOMAIN packages
        indexed == UNION {IndexedFiles(packages[u]) : u \in ps}
    IN [cachedModule |-> TRUE,
        packageCache |-> packages,
        dependencyGraph |-> [u \in ps |-> SortedSeq(packages[u].Imports)],
        reverseDeps |->
            [imp \in Units |-> [u \in Units |->
                IF u \in ps
                THEN (IF imp \in packages[u].Imports THEN 1 ELSE 0)
                     + (IF testImports /\ imp \in packages[u].TestImports THEN 1 ELSE 0)
                ELSE 0]],
        filePathToPackage |->
            [k \in {RebuildKey(f) : f \in indexed} |-> FileUnit(k[2])],
        fileToPackages |->
            [n \in {FileBase(f) : f \in indexed} |->
                SelectSeq(fo, LAMBDA u :
                    \E f \in IndexedFiles(packages[u]) : FileBase(f) = n)],
        mainPackages |-> SortedSeq({u \in ps : packages[u].Name = "main"})]

\* rebuildCache putting the listed packages (none) into the cache before it
\* reports that the listing failed.
rebuildCacheEager(g) ==
    UNION {
        IF l.err THEN {[g |-> Rebuilt(<< >>, << >>), err |-> TRUE]}
        ELSE LET r == getPackages(l.paths)
             IN IF r.err THEN {[g |-> g, err |-> TRUE]}
                ELSE {[g |-> Rebuilt(r.packages, fo), err |-> FALSE] :
                        fo \in Orderings(DOMAIN r.packages)}
        : l \in listPackages }

rebuildCache(g) ==
    UNION {
        IF l.err THEN {[g |-> g, err |-> TRUE]}
        ELSE LET r == getPackages(l.paths)
             IN IF r.err THEN {[g |-> g, err |-> TRUE]}
                ELSE {[g |-> Rebuilt(r.packages, fo), err |-> FALSE] :
                        fo \in Orderings(DOMAIN r.packages)}
        : l \in listPackages }

\* ensureCacheInitialized rebuilding whatever the populated flag says.
ensureCacheInitializedAlways(g) == rebuildCache(g)

ensureCacheInitialized(g) ==
    IF ~g.cachedModule THEN rebuildCache(g) ELSE {[g |-> g, err |-> FALSE]}

\* ------------------------------------------ findPackageContainingFileByPath
\* The package of the cache whose file list holds f.
CachedOwner(g, f) ==
    {u \in DOMAIN g.packageCache :
        \/ f \in g.packageCache[u].GoFiles
        \/ testImports /\ f \in g.packageCache[u].TestGoFiles}

\* The fallback scan of the source tree: GoFiles only.
ScanOwner(packages, f) == {u \in DOMAIN packages : f \in packages[u].GoFiles}

PickPkg(S) == IF S = {} THEN NoPkg ELSE CHOOSE u \in S : TRUE

findPackageContainingFileByPath(g, f) ==
    UNION {
        IF i.err THEN {[g |-> i.g, pkg |-> NoPkg, err |-> TRUE]}
        ELSE IF CachedOwner(i.g, f) # {}
        THEN {[g |-> i.g, pkg |-> PickPkg(CachedOwner(i.g, f)), err |-> FALSE]}
        ELSE { IF l.err THEN [g |-> i.g, pkg |-> NoPkg, err |-> TRUE]
               ELSE LET r == getPackages(l.paths)
                    IN IF r.err THEN [g |-> i.g, pkg |-> NoPkg, err |-> TRUE]
                       ELSE [g |-> i.g, pkg |-> PickPkg(ScanOwner(r.packages, f)),
                             err |-> FALSE]
               : l \in listPackages }
        : i \in ensureCacheInitialized(g) }

\* ------------------------------------------------------- the event handlers
invalidatePackageCache(g, f) ==
    { IF o.err \/ o.pkg = NoPkg
      THEN [g |-> o.g, err |-> FALSE]
      ELSE [g |-> [o.g EXCEPT !.packageCache = MapDel(@, o.pkg),
                              !.dependencyGraph = MapDel(@, o.pkg)],
            err |-> FALSE]
      : o \in findPackageContainingFileByPath(g, f) }

handleFileCreate(g, f) ==
    UNION {
        IF o.err THEN {[g |-> o.g, err |-> TRUE]}
        ELSE IF o.pkg # NoPkg
        THEN LET fileName == FileBase(f)
                 g1 == [o.g EXCEPT
                          !.filePathToPackage = MapPut(@, AbsKey(f), o.pkg),
                          !.fileToPackages =
                              IF contains(MapSeq(@, fileName), o.pkg) THEN @
                              ELSE MapPut(@, fileName, Append(MapSeq(@, fileName), o.pkg))]
             IN invalidatePackageCache(g1, f)
        ELSE {[g |-> o.g, err |-> FALSE]}
        : o \in findPackageContainingFileByPath(g, f) }

handleFileRemove(g, f) ==
    LET g1 == [g EXCEPT !.filePathToPackage = MapDel(@, AbsKey(f))]
    IN UNION {
        LET fileName == FileBase(f)
            g2 == IF o.pkg # NoPkg
                  THEN [o.g EXCEPT !.fileToPackages =
                           MapPut(@, fileName, removeString(MapSeq(@, fileName), o.pkg))]
                  ELSE o.g
        IN invalidatePackageCache(g2, f)
        : o \in findPackageContainingFileByPath(g1, f) }

\* newPkg.Imports, with the test imports appended when they are enabled.
NewImports(newPkg) ==
    SortedSeq(newPkg.Imports) \o
    (IF testImports THEN SortedSeq(newPkg.TestImports) ELSE <<>>)

\* The loop over oldImports: each import that is no longer declared loses
\* one occurrence of the package in its reverse list.
RECURSIVE DropRemoved(_, _, _, _)
DropRemoved(rd, oldImports, newImports, targetPkgPath) ==
    IF oldImports = <<>> THEN rd
    ELSE LET imp == Head(oldImports)
             rd1 == IF ~contains(newImports, imp)
                    THEN removeReverseDep(rd, imp, targetPkgPath) ELSE rd
         IN DropRemoved(rd1, Tail(oldImports), newImports, targetPkgPath)

\* The loop over newImports: each import that was not declared before gains
\* the package in its reverse list.
RECURSIVE AddAdded(_, _, _, _)
AddAdded(rd, newImports, oldImports, targetPkgPath) ==
    IF newImports = <<>> THEN rd
    ELSE LET imp == Head(newImports)
             rd1 == IF ~contains(oldImports, imp)
                    THEN addReverseDep(rd, imp, targetPkgPath) ELSE rd
         IN AddAdded(rd1, Tail(newImports), oldImports, targetPkgPath)

\* Steps 4-6 of refreshPackageCache, once the package was imported again.
Refreshed(g, targetPkgPath, newPkg) ==
    LET oldImports == MapSeq(g.dependencyGraph, targetPkgPath)
        newImports == NewImports(newPkg)
        rd1 == DropRemoved(g.reverseDeps, oldImports, newImports, targetPkgPath)
        rd2 == AddAdded(rd1, newImports, oldImports, targetPkgPath)
    IN [g EXCEPT !.packageCache = MapPut(@, targetPkgPath, newPkg),
                 !.dependencyGraph = MapPut(@, targetPkgPath, newImports),
                 !.reverseDeps = rd2]

\* refreshPackageCache forgetting the package it could not import again.
refreshPackageCacheForgetting(g, f) ==
    UNION {
        IF o.err THEN {[g |-> o.g, err |-> TRUE]}
        ELSE IF o.pkg = NoPkg \/ o.pkg \notin DOMAIN o.g.packageCache
        THEN handleFileCreate(o.g, f)
        ELSE LET n == ImportDir(tree, o.pkg)
             IN IF n.err
                THEN {[g |-> [o.g EXCEPT !.packageCache = MapDel(@, o.pkg)],
                       err |-> TRUE]}
                ELSE {[g |-> Refreshed(o.g, o.pkg, n.pkg), err |-> FALSE]}
        : o \in findPackageContainingFileByPath(g, f) }

\* refreshPackageCache rescanning the whole module.
refreshPackageCacheRescanning(g, f) == rebuildCache(g)

refreshPackageCache(g, f) ==
    UNION {
        IF o.err THEN {[g |-> o.g, err |-> TRUE]}
        ELSE IF o.pkg = NoPkg \/ o.pkg \notin DOMAIN o.g.packageCache
        THEN handleFileCreate(o.g, f)
        ELSE LET n == ImportDir(tree, o.pkg)
             IN IF n.err THEN {[g |-> o.g, err |-> TRUE]}
                ELSE {[g |-> Refreshed(o.g, o.pkg, n.pkg), err |-> FALSE]}
        : o \in findPackageContainingFileByPath(g, f) }

\* rescanMainPackageDependencies keeping the cache it finds.
rescanMainPackageDependenciesKeeping(g) == {[g |-> g, err |-> FALSE]}

rescanMainPackageDependencies(g) == rebuildCache(g)

\* isSameFile: both paths are made absolute against rootDir and compared.
isSameFile(f1, f2) == f1 = f2

NoHandler == ""

\* updateCacheForFileWithContext treating an event it does not know as a
\* write.
updateCacheForFileWithContextDefaultWrite(g, f, event, handlerMainFile) ==
    UNION {
        IF i.err THEN {i}
        ELSE CASE event = "write" ->
                    IF handlerMainFile # NoHandler /\ isSameFile(f, handlerMainFile)
                    THEN rescanMainPackageDependencies(i.g)
                    ELSE refreshPackageCache(i.g, f)
               [] event = "create" -> handleFileCreate(i.g, f)
               [] event = "remove" -> handleFileRemove(i.g, f)
               [] event = "rename" ->
                    UNION { IF r.err THEN {r} ELSE handleFileCreate(r.g, f)
                            : r \in handleFileRemove(i.g, f) }
               [] OTHER -> refreshPackageCache(i.g, f)
        : i \in ensureCacheInitialized(g) }

updateCacheForFileWithContext(g, f, event, handlerMainFile) ==
    UNION {
        IF i.err THEN {i}
        ELSE CASE event = "write" ->
                    IF handlerMainFile # NoHandler /\ isSameFile(f, handlerMainFile)
                    THEN rescanMainPackageDependencies(i.g)
                    ELSE refreshPackageCache(i.g, f)
               [] event = "create" -> handleFileCreate(i.g, f)
               [] event = "remove" -> handleFileRemove(i.g, f)
               [] event = "rename" ->
                    UNION { IF r.err THEN {r} ELSE handleFileCreate(r.g, f)
                            : r \in handleFileRemove(i.g, f) }
               [] OTHER -> {i}
        : i \in ensureCacheInitialized(g) }

updateCacheForFile(g, f, event) ==
    UNION {
        IF i.err THEN {i}
        ELSE CASE event = "write" -> refreshPackageCache(i.g, f)
               [] event = "create" -> handleFileCreate(i.g, f)
               [] event = "remove" -> handleFileRemove(i.g, f)
               [] event = "rename" ->
                    UNION { IF r.err THEN {r} ELSE handleFileCreate(r.g, f)
                            : r \in handleFileRemove(i.g, f) }
               [] OTHER -> {i}
        : i \in ensureCacheInitialized(g) }

\* ------------------------------------------------------- the graph queries
\* cachedImports, with the visited map threaded through the recursion.  The
\* result says whether targetPkg was found, which paths are marked visited,
\* and whether the recursion went deeper than MaxDepth (diverged).
RECURSIVE cachedImports(_, _, _, _, _)
RECURSIVE cachedImportsLoop(_, _, _, _, _)
\* cachedImports without the visited map.
cachedImportsUnmarked(dg, path, targetPkg, visited, depth) ==
    IF depth > MaxDepth
    THEN [found |-> FALSE, visited |-> visited, diverged |-> TRUE]
    ELSE IF path = targetPkg
    THEN [found |-> TRUE, visited |-> visited, diverged |-> FALSE]
    ELSE IF path \in DOMAIN dg
    THEN cachedImportsLoop(dg, dg[path], targetPkg, visited, depth)
    ELSE [found |-> FALSE, visited |-> visited, diverged |-> FALSE]

\* The loop of cachedImports looking at the direct dependencies only.
cachedImportsLoopDirect(dg, deps, targetPkg, visited, depth) ==
    [found |-> contains(deps, targetPkg), visited |-> visited, diverged |-> FALSE]

cachedImports(dg, path, targetPkg, visited, depth) ==
    IF depth > MaxDepth
    THEN [found |-> FALSE, visited |-> visited, diverged |-> TRUE]
    ELSE IF path \in visited
    THEN [found |-> FALSE, visited |-> visited, diverged |-> FALSE]
    ELSE IF path = targetPkg
    THEN [found |-> TRUE, visited |-> visited \cup {path}, diverged |-> FALSE]
    ELSE IF path \in DOMAIN dg
    THEN cachedImportsLoop(dg, dg[path], targetPkg, visited \cup {path}, depth)
    ELSE [found |-> FALSE, visited |-> visited \cup {path}, diverged |-> FALSE]

\* The `for _, dep := range deps` loop of cachedImports.
cachedImportsLoop(dg, deps, targetPkg, visited, depth) ==
    IF deps = <<>>
    THEN [found |-> FALSE, visited |-> visited, diverged |-> FALSE]
    ELSE IF Head(deps) = targetPkg
    THEN [found |-> TRUE, visited |-> visited, diverged |-> FALSE]
    ELSE LET r == cachedImports(dg, Head(deps), targetPkg, visited, depth + 1)
         IN IF r.found \/ r.diverged THEN r
            ELSE cachedImportsLoop(dg, Tail(deps), targetPkg, r.visited, depth)

cachedMainImportsPackage(dg, mainPath, targetPkg) ==
    cachedImports(dg, mainPath, targetPkg, {}, 0).found

isMainPackage(g, pkgPath) == contains(g.mainPackages, pkgPath)

\* parseFileImports: the imports declared in one file of the source tree.
parseFileImports(f) ==
    IF tree[f].st = "absent" THEN [err |-> TRUE]
    ELSE [err |-> FALSE, imports |-> SortedSeq(tree[f].imports)]

\* ------------------------------------------------------ the public queries
\* The packages a pattern handed to `go list` matches: "./..." every package
\* of the module, "./d/..." those under directory d, an import path itself.
PatternUnits(path) ==
    CASE path = "./..." -> Units
      [] path = "./a/..." -> {"mod/a/cmd"}
      [] path = "./x/..." -> {"mod/x"}
      [] path = "./y/..." -> {"mod/y"}
      [] OTHER -> {path} \cap Units

\* listPackages(path) for a pattern of its own.  A pattern with "..." that
\* matches nothing gives the empty list and a warning; an import path that
\* cannot be loaded gives an error.
listPackagesPath(path) ==
    LET matched == PatternUnits(path)
        good == matched \cap GoodUnits(tree)
        bad == matched \cap ErrUnits(tree)
    IN IF path \in Units /\ good = {} THEN [paths |-> {}, err |-> TRUE]
       ELSE IF bad = {} \/ (listsLoadable /\ good # {})
       THEN [paths |-> good, err |-> FALSE]
       ELSE [paths |-> {}, err |-> TRUE]

\* imports(path, packages, any): path is in `any`, or one of its test
\* imports is (when they are enabled), or one of its imports imports.  Only
\* the packages of `packages` are looked into.  `any` is the map the caller
\* hands in and the call writes to: a package found to import is marked in
\* it, a package answered through its test imports is not.  Nothing is
\* recorded for a package that is being looked into, so a call that comes
\* back to a package on its own stack recurses without end; that is reported
\* as `diverged` once the stack is deeper than MaxDepth (no stack without a
\* repetition is deeper than the number of packages).
RECURSIVE imports(_, _, _, _)
RECURSIVE importsRange(_, _, _, _, _)
imports(path, packages, any, depth) ==
    IF depth > MaxDepth THEN [found |-> FALSE, any |-> any, diverged |-> TRUE]
    ELSE IF path \in any THEN [found |-> TRUE, any |-> any, diverged |-> FALSE]
    ELSE IF path \notin DOMAIN packages
    THEN [found |-> FALSE, any |-> any, diverged |-> FALSE]
    ELSE IF testImports /\ packages[path].TestImports \cap any # {}
    THEN [found |-> TRUE, any |-> any, diverged |-> FALSE]
    ELSE importsRange(path, SortedImports(packages[path].Imports), packages, any, depth)

\* The `for _, imp := range pkg.Imports` loop of imports.
importsRange(path, imps, packages, any, depth) ==
    IF imps = <<>> THEN [found |-> FALSE, any |-> any, diverged |-> FALSE]
    ELSE LET r == imports(Head(imps), packages, any, depth + 1)
         IN IF r.diverged THEN r
            ELSE IF r.found
            THEN [found |-> TRUE, any |-> r.any \cup {path}, diverged |-> FALSE]
            ELSE importsRange(path, Tail(imps), packages, r.any, depth)

\* The `for path := range packages` loop of FindReverseDeps, visiting the
\* map in the given order with the one map of targets: the set of the paths
\* appended to the result.
RECURSIVE FindReverseDepsRange(_, _, _)
FindReverseDepsRange(order, packages, targets) ==
    IF order = <<>> THEN [res |-> {}, diverged |-> FALSE]
    ELSE LET r == imports(Head(order), packages, targets, 0)
         IN IF r.diverged THEN [res |-> {}, diverged |-> TRUE]
            ELSE LET rest == FindReverseDepsRange(Tail(order), packages, r.any)
                 IN [res |-> (IF r.found THEN {Head(order)} ELSE {}) \cup rest.res,
                     diverged |-> rest.diverged]

\* FindReverseDeps(sourcePath, targetPaths): res is the set of the paths in
\* the returned list, which holds each key of `packages` at most once; one
\* outcome for every order in which the map of the packages may be visited.
\* A call that recurses without end returns nothing (diverged).
FindReverseDepsOutcomes(sourcePath, targetPaths) ==
    IF \E k \in DOMAIN targetPaths : listPackagesPath(targetPaths[k]).err
    THEN {[res |-> {}, err |-> TRUE, diverged |-> FALSE]}
    ELSE LET targets == UNION {listPackagesPath(targetPaths[k]).paths :
                                   k \in DOMAIN targetPaths}
             l == listPackagesPath(sourcePath)
         IN IF l.err THEN {[res |-> {}, err |-> TRUE, diverged |-> FALSE]}
            ELSE LET r == getPackages(l.paths)
                 IN IF r.err THEN {[res |-> {}, err |-> TRUE, diverged |-> FALSE]}
                    ELSE {[res |-> FindReverseDepsRange(fo, r.packages, targets).res,
                           err |-> FALSE,
                           diverged |-> FindReverseDepsRange(fo, r.packages,
                                                             targets).diverged] :
                            fo \in Orderings(DOMAIN r.packages)}

\* The loops of GoFileComesFromMain adding a main package once for every
\* candidate package it reaches.
RECURSIVE MainsImportingRepeating(_, _, _)
MainsImportingRepeating(dg, mains, candidatePackages) ==
    IF mains = <<>> THEN <<>>
    ELSE LET hits == SelectSeq(candidatePackages, LAMBDA filePkg :
                        cachedMainImportsPackage(dg, Head(mains), filePkg))
         IN [k \in 1..Len(hits) |-> Head(mains)]
            \o MainsImportingRepeating(dg, Tail(mains), candidatePackages)

\* The loops of GoFileComesFromMain: every main package, in the order of
\* mainPackages, that reaches one of the candidate packages; the inner loop
\* stops at the first candidate it reaches.
RECURSIVE MainsImporting(_, _, _)
MainsImporting(dg, mains, candidatePackages) ==
    IF mains = <<>> THEN <<>>
    ELSE (IF \E k \in DOMAIN candidatePackages :
                cachedMainImportsPackage(dg, Head(mains), candidatePackages[k])
          THEN <<Head(mains)>> ELSE <<>>)
         \o MainsImporting(dg, Tail(mains), candidatePackages)

\* The outcomes [g, res, err] of GoFileComesFromMain(fileName) on cache g.
GoFileComesFromMainOutcomes(g, fileName) ==
    { IF i.err THEN [g |-> i.g, res |-> <<>>, err |-> TRUE]
      ELSE LET candidatePackages == MapSeq(i.g.fileToPackages, fileName)
           IN IF Len(candidatePackages) = 0
              THEN [g |-> i.g, res |-> <<>>, err |-> FALSE]
              ELSE [g |-> i.g,
                    res |-> MainsImporting(i.g.dependencyGraph, i.g.mainPackages,
                                           candidatePackages),
                    err |-> FALSE]
      : i \in ensureCacheInitialized(g) }

\* ------------------------------------------------------------ the resolver
\* Directory of a handler's main file, relative to the root.
FileDir(f) == UnitDir(FileUnit(f))
\* The import path of a unit as path components.
UnitPath(u) == <<"mod">> \o UnitDir(u)

\* handlerFileImportsPackage without the transitive check.
handlerFileImportsPackageDirect(g, handlerFileRelativePath, targetPkg) ==
    { IF i.err THEN [g |-> i.g, res |-> FALSE]
      ELSE LET p == parseFileImports(handlerFileRelativePath)
           IN IF p.err THEN [g |-> i.g, res |-> FALSE]
              ELSE [g |-> i.g, res |-> contains(p.imports, targetPkg)]
      : i \in ensureCacheInitialized(g) }

handlerFileImportsPackage(g, handlerFileRelativePath, targetPkg) ==
    { IF i.err THEN [g |-> i.g, res |-> FALSE]
      ELSE LET p == parseFileImports(handlerFileRelativePath)
           IN IF p.err THEN [g |-> i.g, res |-> FALSE]
              ELSE [g |-> i.g,
                    res |-> \/ contains(p.imports, targetPkg)
                            \/ \E k \in DOMAIN p.imports :
                                 cachedMainImportsPackage(i.g.dependencyGraph,
                                                          p.imports[k], targetPkg)]
      : i \in ensureCacheInitialized(g) }

\* doesPackageBelongToHandler asking the main package of the handler's
\* directory, not the handler's own file, for its imports.
doesPackageBelongToHandlerByDir(g, targetPkg, mainInputFileRelativePath) ==
    LET handlerDir == FileDir(mainInputFileRelativePath)
    IN IF isMainPackage(g, targetPkg)
       THEN {[g |-> g,
              res |-> IF targetPkg \in DOMAIN g.packageCache
                      THEN g.packageCache[targetPkg].Dir = handlerDir
                      ELSE Base(UnitPath(targetPkg)) = Base(handlerDir)]}
       ELSE {[g |-> g,
              res |-> cachedMainImportsPackage(g.dependencyGraph,
                          FileUnit(mainInputFileRelativePath), targetPkg)]}

doesPackageBelongToHandler(g, targetPkg, mainInputFileRelativePath) ==
    LET handlerDir == FileDir(mainInputFileRelativePath)
    IN IF isMainPackage(g, targetPkg)
       THEN {[g |-> g,
              res |-> IF targetPkg \in DOMAIN g.packageCache
                      THEN g.packageCache[targetPkg].Dir = handlerDir
                      ELSE Base(UnitPath(targetPkg)) = Base(handlerDir)]}
       ELSE handlerFileImportsPackage(g, mainInputFileRelativePath, targetPkg)

\* findPackageForFile asking the by-name index before the exact-path index.
findPackageForFileByName(g, f) ==
    { IF i.err THEN [g |-> i.g, pkg |-> NoPkg, err |-> TRUE]
      ELSE IF Len(MapSeq(i.g.fileToPackages, FileBase(f))) > 0
      THEN [g |-> i.g, pkg |-> i.g.fileToPackages[FileBase(f)][1], err |-> FALSE]
      ELSE IF AbsKey(f) \in DOMAIN i.g.filePathToPackage
      THEN [g |-> i.g, pkg |-> i.g.filePathToPackage[AbsKey(f)], err |-> FALSE]
      ELSE IF RelKey(f) \in DOMAIN i.g.filePathToPackage
      THEN [g |-> i.g, pkg |-> i.g.filePathToPackage[RelKey(f)], err |-> FALSE]
      ELSE [g |-> i.g, pkg |-> NoPkg, err |-> FALSE]
      : i \in ensureCacheInitialized(g) }

findPackageForFile(g, f) ==
    { IF i.err THEN [g |-> i.g, pkg |-> NoPkg, err |-> TRUE]
      ELSE IF AbsKey(f) \in DOMAIN i.g.filePathToPackage
      THEN [g |-> i.g, pkg |-> i.g.filePathToPackage[AbsKey(f)], err |-> FALSE]
      ELSE IF RelKey(f) \in DOMAIN i.g.filePathToPackage
      THEN [g |-> i.g, pkg |-> i.g.filePathToPackage[RelKey(f)], err |-> FALSE]
      ELSE IF Len(MapSeq(i.g.fileToPackages, FileBase(f))) > 0
      THEN [g |-> i.g, pkg |-> i.g.fileToPackages[FileBase(f)][1], err |-> FALSE]
      ELSE [g |-> i.g, pkg |-> NoPkg, err |-> FALSE]
      : i \in ensureCacheInitialized(g) }

checkPackageBasedOwnership(g, mainInputFileRelativePath, f) ==
    UNION {
        IF o.err THEN {[g |-> o.g, res |-> FALSE, err |-> TRUE]}
        ELSE IF o.pkg = NoPkg THEN {[g |-> o.g, res |-> FALSE, err |-> FALSE]}
        ELSE {[g |-> b.g, res |-> b.res, err |-> FALSE] :
                b \in doesPackageBelongToHandler(o.g, o.pkg, mainInputFileRelativePath)}
        : o \in findPackageForFile(g, f) }

\* GoFileValidator.IsValidGoFile on a .go file of the tree: os.Stat fails for
\* a file that is not there; hasValidGoSyntax answers (false, nil) for a
\* parse error that holds "expected", "unexpected" or "found 'EOF'" and hands
\* on every other parse error.
IsValidGoFile(f) ==
    IF tree[f].st \in {"absent", "torn"} THEN [valid |-> FALSE, err |-> TRUE]
    ELSE [valid |-> tree[f].st = "ok", err |-> FALSE]

\* hasValidGoSyntax: the parse of a file that is there; a file that cannot be
\* opened and a parse error of the other kind are handed on as errors.
hasValidGoSyntax(f) ==
    IF tree[f].st \in {"absent", "torn"} THEN [valid |-> FALSE, err |-> TRUE]
    ELSE [valid |-> tree[f].st = "ok", err |-> FALSE]

\* IsFileBeingWritten: for a file without valid syntax, whether it has
\* content but no package clause yet; which of the two a cut-off file is, is
\* not told apart by its state in the tree.
IsFileBeingWritten(f) ==
    IF hasValidGoSyntax(f).err THEN {[written |-> FALSE, err |-> TRUE]}
    ELSE IF hasValidGoSyntax(f).valid THEN {[written |-> FALSE, err |-> FALSE]}
    ELSE {[written |-> w, err |-> FALSE] : w \in BOOLEAN}

\* The outcomes [ok, err, msg] of ValidateInputForProcessing for the handler
\* path and the path of a file (its name is the base of the path).  The
\* paths of Files are the .go files; every other path is a file of another
\* kind.
ValidateInputForProcessingOutcomes(mainInputFileRelativePath, f) ==
    IF mainInputFileRelativePath = NoHandler
    THEN {[ok |-> FALSE, err |-> TRUE, msg |-> "handler main file path cannot be empty"]}
    ELSE IF f # "" /\ f \in Files
    THEN IF IsValidGoFile(f).err
         THEN {[ok |-> FALSE, err |-> TRUE, msg |-> "file validation failed"]}
         ELSE IF ~IsValidGoFile(f).valid
         THEN { IF w.err
                THEN [ok |-> FALSE, err |-> TRUE, msg |-> "file write detection failed"]
                ELSE [ok |-> FALSE, err |-> FALSE, msg |-> ""]
                : w \in IsFileBeingWritten(f) }
         ELSE {[ok |-> TRUE, err |-> FALSE, msg |-> ""]}
    ELSE {[ok |-> TRUE, err |-> FALSE, msg |-> ""]}

\* strings.TrimPrefix(fileAbsPath, rootDir+"/") == mainInputFileRelativePath:
\* the prefix is only there to trim when rootDir is itself absolute.
IsHandlerMainFile(mainInputFileRelativePath, f) ==
    ~rootRel /\ f = mainInputFileRelativePath

\* ThisFileIsMine populating the cache before it validates its inputs.
ThisFileIsMineOutcomesLate(g, mainInputFileRelativePath, f, event) ==
    { IF i.err
      THEN [g |-> i.g, res |-> FALSE, err |-> TRUE, msg |-> "failed to list packages"]
      ELSE IF f = ""
      THEN [g |-> i.g, res |-> FALSE, err |-> TRUE, msg |-> "fileAbsPath cannot be empty"]
      ELSE [g |-> i.g, res |-> FALSE, err |-> TRUE,
            msg |-> "handler mainInputFileRelativePath cannot be empty"]
      : i \in ensureCacheInitialized(g) }

\* The outcomes [g, res, err, msg] of ThisFileIsMine(handler, file, event) on
\* cache g; msg is the text the returned error starts with ("" for nil).
ThisFileIsMineOutcomes(g, mainInputFileRelativePath, f, event) ==
    IF f = ""
    THEN {[g |-> g, res |-> FALSE, err |-> TRUE, msg |-> "fileAbsPath cannot be empty"]}
    ELSE IF mainInputFileRelativePath = NoHandler
    THEN {[g |-> g, res |-> FALSE, err |-> TRUE,
           msg |-> "handler mainInputFileRelativePath cannot be empty"]}
    ELSE IF tree[mainInputFileRelativePath].st = "absent"
    THEN {[g |-> g, res |-> FALSE, err |-> TRUE, msg |-> "handler main file does not exist"]}
    ELSE IF IsValidGoFile(f).err
    THEN {[g |-> g, res |-> FALSE, err |-> TRUE, msg |-> "file validation failed"]}
    ELSE IF ~IsValidGoFile(f).valid
    THEN {[g |-> g, res |-> FALSE, err |-> FALSE, msg |-> ""]}
    ELSE IF IsHandlerMainFile(mainInputFileRelativePath, f)
    THEN {[g |-> u.g, res |-> ~u.err, err |-> u.err,
           msg |-> IF u.err THEN "cache update failed" ELSE ""] :
            u \in updateCacheForFileWithContext(g, f, event, mainInputFileRelativePath)}
    ELSE {[g |-> o.g, res |-> o.res, err |-> o.err,
           msg |-> IF o.err THEN "failed to list packages" ELSE ""] :
            o \in checkPackageBasedOwnership(g, mainInputFileRelativePath, f)}

\* ------------------------------------------------------------ the machine
Handlers == {"a/cmd/main.server.go", "a/cmd/main.wasm.go", "b/cmd/main.go"}
EventNames == {"write", "create", "remove", "rename", "check"}

\* The import lists an edit may give a file: none, or the file's one
\* candidate dependency (y, the bottom of the chain, has none).
ImportChoices(f) ==
    CASE f = "a/cmd/main.server.go" -> {{}, {"mod/x"}}
      [] f = "a/cmd/main.wasm.go" -> {{}, {"mod/y"}}
      [] f = "b/cmd/main.go" -> {{}, {"mod/y"}}
      [] f = "x/lib.go" -> {{}, {"mod/y"}}
      [] f = "x/lib_test.go" -> {{}, {"mod/y"}}
      [] f = "y/lib.go" -> {{}}

NoCall == [op |-> "none"]

\* The tree at the start: two mains in a/cmd split by a build tag (the wasm
\* one imports y, the server one nothing yet), a third main in b/cmd, the
\* library y; the library x is not written yet.
InitTree ==
    [f \in Files |->
        IF f \in {"x/lib.go", "x/lib_test.go"} THEN [st |-> "absent", imports |-> {}]
        ELSE [st |-> "ok",
              imports |-> IF f = "a/cmd/main.wasm.go" THEN {"mod/y"} ELSE {}]]

\* New(rootDir): every map empty, the cache not populated.
EmptyCache ==
    /\ cachedModule = FALSE
    /\ packageCache = EmptyMap
    /\ dependencyGraph = EmptyMap
    /\ reverseDeps = [u \in Units |-> NoDeps]
    /\ filePathToPackage = EmptyMap
    /\ fileToPackages = EmptyMap
    /\ mainPackages = <<>>

Init ==
    /\ tree = InitTree
    /\ rootRel \in BOOLEAN
    /\ listsLoadable \in BOOLEAN
    /\ testImports = FALSE
    /\ EmptyCache
    /\ last = NoCall
    /\ edits = 0
    /\ events = 0

\* The cache fields take the values of record g.
SetCache(g) ==
    /\ cachedModule' = g.cachedModule
    /\ packageCache' = g.packageCache
    /\ dependencyGraph' = g.dependencyGraph
    /\ reverseDeps' = g.reverseDeps
    /\ filePathToPackage' = g.filePathToPackage
    /\ fileToPackages' = g.fileToPackages
    /\ mainPackages' = g.mainPackages

\* A call that changes a populated cache counts against MaxEvents.
Counted(g) ==
    IF g = G \/ ~cachedModule THEN events' = events
    ELSE events < MaxEvents /\ events' = events + 1

\* The write of the handler's own main file: it replaces the cache by a
\* rebuilt one whatever events came before, and is not counted with them.
Rebuilds(h, f, event) == IsHandlerMainFile(h, f) /\ event = "write"

\* For a file that is not the handler's own the event name is never read
\* (ThisFileIsMine, step 7), so those calls are made with "write".
CallEvents(h, f) == IF f = h THEN EventNames ELSE {"write"}

\* A call that left the cache as it was has no effect on anything that
\* follows it.  From the state such a call ends in, the model explores only
\* the repetition of the same call; every other continuation is explored from
\* the state the call started in, which differs in `last` alone.
AtQuery ==
    /\ last.op \in {"ThisFileIsMine", "updateCacheForFile", "GoFileComesFromMain",
                  "FindReverseDeps", "ValidateInputForProcessing"}
    /\ last.pure
Repeats(h, f, event) == last.handler = h /\ last.file = f /\ last.event = event
\* The one exception: a write of the handler's own main file that was
\* delivered without error may be followed by that handler's queries.
FollowsDelivery(h, f) ==
    /\ last.handler = h /\ last.file = h /\ last.event = "write" /\ ~last.err
    /\ f # h

ThisFileIsMine(h, f, event) ==
    /\ AtQuery => /\ last.op = "ThisFileIsMine"
                  /\ Repeats(h, f, event) \/ FollowsDelivery(h, f)
    /\ \E o \in ThisFileIsMineOutcomes(G, h, f, event) :
          /\ IF Rebuilds(h, f, event) THEN events' = events ELSE Counted(o.g)
          /\ SetCache(o.g)
          /\ last' = [op |-> "ThisFileIsMine", handler |-> h, file |-> f,
                      event |-> event, res |-> o.res, err |-> o.err,
                      msg |-> o.msg, pure |-> (o.g = G)]
    /\ UNCHANGED <<tree, rootRel, listsLoadable, testImports, edits>>

UpdateCacheForFile(f, event) ==
    /\ AtQuery => last.op = "updateCacheForFile" /\ last.file = f /\ last.event = event
    /\ \E o \in updateCacheForFile(G, f, event) :
          /\ Counted(o.g)
          /\ SetCache(o.g)
          /\ last' = [op |-> "updateCacheForFile", file |-> f, event |-> event,
                      err |-> o.err, pure |-> (o.g = G)]
    /\ UNCHANGED <<tree, rootRel, listsLoadable, testImports, edits>>

\* SetTestImports, called while the finder is set up, before its first use.
SetTestImports(enabled) ==
    /\ ~cachedModule
    /\ testImports # enabled
    /\ testImports' = enabled
    /\ last' = [op |-> "SetTestImports"]
    /\ UNCHANGED <<tree, rootRel, listsLoadable, cachedModule, packageCache, dependencyGraph,
                   reverseDeps, filePathToPackage, fileToPackages, mainPackages,
                   edits, events>>

\* ---- the developer edits the source tree
CacheUnchanged ==
    UNCHANGED <<rootRel, listsLoadable, testImports, cachedModule, packageCache, dependencyGraph,
                reverseDeps, filePathToPackage, fileToPackages, mainPackages, events>>

\* A file is saved (created or overwritten) with the given imports.
SaveFile(f, imps) ==
    /\ ~AtQuery
    /\ edits < MaxEdits
    /\ tree[f] # [st |-> "ok", imports |-> imps]
    /\ tree' = [tree EXCEPT ![f] = [st |-> "ok", imports |-> imps]]
    /\ edits' = edits + 1
    /\ last' = [op |-> "edit"]
    /\ CacheUnchanged

DeleteFile(f) ==
    /\ ~AtQuery
    /\ edits < MaxEdits
    /\ tree[f].st # "absent"
    /\ tree' = [tree EXCEPT ![f] = [st |-> "absent", imports |-> {}]]
    /\ edits' = edits + 1
    /\ last' = [op |-> "edit"]
    /\ CacheUnchanged

\* A file is caught empty or cut off in its header, as in the middle of a save.
TruncateFile(f) ==
    /\ ~AtQuery
    /\ edits < MaxEdits
    /\ FileKind(f) # "tagged"
    /\ tree[f].st # "bad"
    /\ tree' = [tree EXCEPT ![f] = [st |-> "bad", imports |-> {}]]
    /\ edits' = edits + 1
    /\ last' = [op |-> "edit"]
    /\ CacheUnchanged

\* A file is caught cut off inside a string literal or a comment.
TearFile(f) ==
    /\ ~AtQuery
    /\ edits < MaxEdits
    /\ FileKind(f) # "tagged"
    /\ tree[f].st # "torn"
    /\ tree' = [tree EXCEPT ![f] = [st |-> "torn", imports |-> {}]]
    /\ edits' = edits + 1
    /\ last' = [op |-> "edit"]
    /\ CacheUnchanged

\* The files of the routing scenario (no test files).
PlainFiles == {f \in Files : FileKind(f) # "test"}
\* The edits the developer makes in it: imports change in the server main and
\* in the libraries, a main or a library file is deleted, a library file is
\* caught mid-save.
SavedFiles == {"a/cmd/main.server.go", "x/lib.go", "y/lib.go"}
DeletedFiles == {"a/cmd/main.server.go", "y/lib.go"}
TruncatedFiles == {"y/lib.go"}

\* Calls that do not pass the input validation: no handler path, no file path.
InvalidCalls == {<<NoHandler, "b/cmd/main.go">>, <<"b/cmd/main.go", "">>}

\* The resolver driven through its public entry point while the tree is edited.
Next ==
    \/ \E h \in Handlers, f \in PlainFiles :
          \E e \in CallEvents(h, f) : ThisFileIsMine(h, f, e)
    \/ \E c \in InvalidCalls : ThisFileIsMine(c[1], c[2], "write")
    \/ \E f \in SavedFiles : \E imps \in ImportChoices(f) : SaveFile(f, imps)
    \/ \E f \in DeletedFiles : DeleteFile(f)
    \/ \E f \in TruncatedFiles : TruncateFile(f)

Spec == Init /\ [][Next]_vars

\* ---- the cache driven event by event, test imports on or off
\* The edits of this scenario: the library x and its test are written, the
\* library y is deleted or caught mid-save.
EventSavedFiles == {"x/lib.go", "x/lib_test.go"}
EventDeletedFiles == {"y/lib.go"}
EventTruncatedFiles == {"y/lib.go"}
\* The files events are reported for, and the events that change the cache.
EventFiles == {"x/lib.go", "x/lib_test.go", "y/lib.go"}
CacheEvents == {"write", "create", "remove", "rename"}

InitEvents ==
    /\ tree = InitTree
    /\ rootRel = FALSE
    /\ listsLoadable \in BOOLEAN
    /\ testImports = FALSE
    /\ EmptyCache
    /\ last = NoCall
    /\ edits = 0
    /\ events = 0

NextEvents ==
    \/ \E enabled \in BOOLEAN : SetTestImports(enabled)
    \/ \E f \in EventFiles, e \in CacheEvents : UpdateCacheForFile(f, e)
    \/ ThisFileIsMine("a/cmd/main.server.go", "a/cmd/main.server.go", "write")
    \/ \E f \in EventSavedFiles : \E imps \in ImportChoices(f) : SaveFile(f, imps)
    \/ \E f \in EventDeletedFiles : DeleteFile(f)
    \/ \E f \in EventTruncatedFiles : TruncateFile(f)

SpecEvents == InitEvents /\ [][NextEvents]_vars

\* ---- the resolver asked about files that are caught in the middle of a save
\* The files that are saved and caught mid-save, and asked about.
ValidatedFiles == {"a/cmd/main.server.go", "y/lib.go"}

NextValidate ==
    \/ \E h \in Handlers, f \in ValidatedFiles :
          \E e \in CallEvents(h, f) : ThisFileIsMine(h, f, e)
    \/ \E f \in ValidatedFiles : \E imps \in ImportChoices(f) : SaveFile(f, imps)
    \/ \E f \in ValidatedFiles : TruncateFile(f)
    \/ \E f \in ValidatedFiles : TearFile(f)

SpecValidate == Init /\ [][NextValidate]_vars

\* ---- a handler asked about the libraries under it while one of them is edited
\* The tree of the nested scenario: the server main imports x, and x, which
\* is written already, imports nothing yet.
NestedTree ==
    [InitTree EXCEPT !["a/cmd/main.server.go"] = [st |-> "ok", imports |-> {"mod/x"}],
                     !["x/lib.go"] = [st |-> "ok", imports |-> {}]]

InitNested ==
    /\ tree = NestedTree
    /\ rootRel \in BOOLEAN
    /\ listsLoadable \in BOOLEAN
    /\ testImports = FALSE
    /\ EmptyCache
    /\ last = NoCall
    /\ edits = 0
    /\ events = 0

\* The library files that are edited and reported.
NestedFiles == {"x/lib.go", "y/lib.go"}

NextNested ==
    \/ \E h \in Handlers, f \in NestedFiles : ThisFileIsMine(h, f, "write")
    \/ \E h \in Handlers : ThisFileIsMine(h, h, "write")
    \/ \E imps \in ImportChoices("x/lib.go") : SaveFile("x/lib.go", imps)

SpecNested == InitNested /\ [][NextNested]_vars

\* ---- the mains of a file name asked for while the cache takes events
GoFileComesFromMain(fileName) ==
    /\ AtQuery => last.op = "GoFileComesFromMain" /\ last.fileName = fileName
    /\ \E o \in GoFileComesFromMainOutcomes(G, fileName) :
          /\ SetCache(o.g)
          /\ last' = [op |-> "GoFileComesFromMain", fileName |-> fileName,
                      res |-> o.res, err |-> o.err, pure |-> (o.g = G)]
    /\ UNCHANGED <<tree, rootRel, listsLoadable, testImports, edits, events>>

\* The file names that are asked for: one that two libraries share, the name
\* of a main file, one of a file the build context excludes, one that is in
\* no package.
QueriedNames == {"lib.go", "main.go", "main.wasm.go", "nonexistent.go"}
\* The edits and the events of this scenario.
MainsSavedFiles == {"a/cmd/main.server.go", "b/cmd/main.go", "x/lib.go"}
MainsEventFiles == {"a/cmd/main.server.go", "y/lib.go"}

NextMains ==
    \/ \E n \in QueriedNames : GoFileComesFromMain(n)
    \/ \E f \in MainsEventFiles, e \in CacheEvents : UpdateCacheForFile(f, e)
    \/ \E f \in MainsSavedFiles : \E imps \in ImportChoices(f) : SaveFile(f, imps)
    \/ \E f \in EventTruncatedFiles : TruncateFile(f)

SpecMains == InitEvents /\ [][NextMains]_vars

\* ---- the batch query run on the tree while it is edited
FindReverseDeps(sourcePath, targetPaths) ==
    /\ AtQuery => /\ last.op = "FindReverseDeps"
                  /\ last.sourcePath = sourcePath /\ last.targetPaths = targetPaths
    /\ \E o \in FindReverseDepsOutcomes(sourcePath, targetPaths) :
          last' = [op |-> "FindReverseDeps", sourcePath |-> sourcePath,
                   targetPaths |-> targetPaths, res |-> o.res, err |-> o.err,
                   pure |-> TRUE]
    /\ UNCHANGED <<tree, rootRel, listsLoadable, testImports, cachedModule, packageCache,
                   dependencyGraph, reverseDeps, filePathToPackage, fileToPackages,
                   mainPackages, edits, events>>

\* The roots and the target sets the query is run with.
SourcePaths == {"./...", "./a/...", "./x/..."}
TargetPaths == {<<"mod/y">>, <<"mod/x">>, <<"./x/...", "./y/...">>}
\* The edits of this scenario: imports come and go in a main and in x.
ReverseSavedFiles == {"a/cmd/main.server.go", "b/cmd/main.go", "x/lib.go"}

InitReverse ==
    /\ tree = NestedTree
    /\ rootRel = FALSE
    /\ listsLoadable \in BOOLEAN
    /\ testImports = FALSE
    /\ EmptyCache
    /\ last = NoCall
    /\ edits = 0
    /\ events = 0

NextReverse ==
    \/ \E s \in SourcePaths, t \in TargetPaths : FindReverseDeps(s, t)
    \/ \E f \in ReverseSavedFiles : \E imps \in ImportChoices(f) : SaveFile(f, imps)
    \/ \E f \in EventTruncatedFiles : TruncateFile(f)

SpecReverse == InitReverse /\ [][NextReverse]_vars

\* ---- the input validation on its own, on files caught in every state
ValidateInputForProcessing(mainInputFileRelativePath, f) ==
    /\ AtQuery => /\ last.op = "ValidateInputForProcessing"
                  /\ last.handler = mainInputFileRelativePath /\ last.file = f
    /\ \E o \in ValidateInputForProcessingOutcomes(mainInputFileRelativePath, f) :
          last' = [op |-> "ValidateInputForProcessing",
                   handler |-> mainInputFileRelativePath, file |-> f,
                   ok |-> o.ok, err |-> o.err, msg |-> o.msg, pure |-> TRUE]
    /\ UNCHANGED <<tree, rootRel, listsLoadable, testImports, cachedModule, packageCache,
                   dependencyGraph, reverseDeps, filePathToPackage, fileToPackages,
                   mainPackages, edits, events>>

\* The handler paths and the file paths the validation is called with: no
\* handler path and a handler path; two .go files, a text file, no path.
InputHandlers == {NoHandler, "b/cmd/main.go"}
InputFiles == {"a/cmd/main.server.go", "y/lib.go", "docs/notes.txt", ""}

NextInput ==
    \/ \E h \in InputHandlers, f \in InputFiles : ValidateInputForProcessing(h, f)
    \/ \E f \in ValidatedFiles : \E imps \in ImportChoices(f) : SaveFile(f, imps)
    \/ \E f \in ValidatedFiles : TruncateFile(f)
    \/ \E f \in ValidatedFiles : TearFile(f)

SpecInput == Init /\ [][NextInput]_vars

\* ---- the resolver told about library files that were removed or renamed
\* The library files that come and go, and the events reported for them.
RemovedFiles == {"x/lib.go", "y/lib.go"}
RemovalEvents == {"remove", "rename"}

NextRemoved ==
    \/ \E h \in Handlers, f \in RemovedFiles, e \in RemovalEvents : ThisFileIsMine(h, f, e)
    \/ \E f \in RemovedFiles : \E imps \in ImportChoices(f) : SaveFile(f, imps)
    \/ \E f \in RemovedFiles : DeleteFile(f)

SpecRemoved == Init /\ [][NextRemoved]_vars

\* ---- the reverse-dependency loop on its own, over every small set of
\* loaded packages
\* The packages getPackages may have loaded, and the paths they may import:
\* those packages and one of the standard library.
LoadedUnits == {"mod/a/cmd", "mod/x", "mod/y"}
ImportPaths == LoadedUnits \cup {"fmt"}

\* What build.ImportDir may have read from a package: up to MaxImports
\* imports and, for x (the package with a test file), up to one test import.
LoadedPackage(u) ==
    {[Imports |-> imps, TestImports |-> timps] :
        imps \in {S \in SUBSET ImportPaths : Cardinality(S) <= MaxImports},
        timps \in IF u = "mod/x"
                  THEN {S \in SUBSET ImportPaths : Cardinality(S) <= 1}
                  ELSE {{}}}

\* Every map getPackages may return for a non-empty list of paths.
LoadedSets ==
    UNION {{pk \in [D -> UNION {LoadedPackage(u) : u \in D}] :
                \A u \in D : pk[u] \in LoadedPackage(u)}
           : D \in (SUBSET LoadedUnits) \ {{}}}

\* getPackages has returned the map `packages` to FindReverseDeps.
InitLoaded ==
    /\ tree = InitTree
    /\ rootRel = FALSE
    /\ listsLoadable = FALSE
    /\ testImports \in BOOLEAN
    /\ EmptyCache
    /\ last \in {[op |-> "getPackages", packages |-> pk] : pk \in LoadedSets}
    /\ edits = 0
    /\ events = 0

\* The loop of FindReverseDeps runs over the loaded packages in order fo for
\* the targets the target patterns listed.
FindReverseDepsLoop(targets, fo) ==
    /\ last.op = "getPackages"
    /\ LET r == FindReverseDepsRange(fo, last.packages, targets)
       IN last' = [op |-> "FindReverseDeps", packages |-> last.packages,
                   targets |-> targets, order |-> fo,
                   res |-> r.res, diverged |-> r.diverged]
    /\ UNCHANGED <<tree, rootRel, listsLoadable, testImports, cachedModule, packageCache,
                   dependencyGraph, reverseDeps, filePathToPackage, fileToPackages,
                   mainPackages, edits, events>>

\* The target sets the loop is run for.
LoadedTargets == {{"fmt"}, {"mod/y"}, {"mod/x", "mod/y"}}

NextLoaded ==
    \E targets \in LoadedTargets :
        \E fo \in Orderings(DOMAIN last.packages) : FindReverseDepsLoop(targets, fo)

SpecLoaded == InitLoaded /\ [][NextLoaded]_vars

\* ---- the graph query on its own, over every small dependency graph
\* The packages of the graphs: a main and two libraries.
GraphUnits == {"mod/a/cmd", "mod/x", "mod/y"}

SeqsUpTo(S, n) == UNION {[1..k -> S] : k \in 0..n}

\* Every dependencyGraph over GraphUnits: a package has an entry with up to
\* MaxImports imports (repeats included, as refreshPackageCache can append
\* the test imports to the imports), or no entry at all.
Graphs ==
    UNION {[D -> SeqsUpTo(GraphUnits, MaxImports)] : D \in SUBSET GraphUnits}

InitGraph ==
    /\ tree = InitTree
    /\ rootRel = FALSE
    /\ listsLoadable = FALSE
    /\ testImports = FALSE
    /\ cachedModule = TRUE
    /\ packageCache = EmptyMap
    /\ dependencyGraph \in Graphs
    /\ reverseDeps = [u \in Units |-> NoDeps]
    /\ filePathToPackage = EmptyMap
    /\ fileToPackages = EmptyMap
    /\ mainPackages = <<>>
    /\ last = NoCall
    /\ edits = 0
    /\ events = 0

\* cachedMainImportsPackage(mainPath, targetPkg) is called on the graph.
CachedMainImportsPackage(mainPath, targetPkg) ==
    /\ last' = [op |-> "cachedMainImportsPackage", mainPath |-> mainPath,
                targetPkg |-> targetPkg,
                res |-> cachedMainImportsPackage(dependencyGraph, mainPath, targetPkg),
                diverged |-> cachedImports(dependencyGraph, mainPath, targetPkg,
                                           {}, 0).diverged]
    /\ UNCHANGED <<tree, rootRel, listsLoadable, testImports, cachedModule, packageCache,
                   dependencyGraph, reverseDeps, filePathToPackage, fileToPackages,
                   mainPackages, edits, events>>

NextGraph ==
    \E mainPath, targetPkg \in GraphUnits : CachedMainImportsPackage(mainPath, targetPkg)

SpecGraph == InitGraph /\ [][NextGraph]_vars

\* ------------------------------------------------------------ the claims
\* The packages reachable from the set S along the edges of graph dg.
RECURSIVE Closure(_, _)
Closure(dg, S) ==
    LET T == S \cup UNION {Range(dg[u]) : u \in S \cap DOMAIN dg}
    IN IF T = S THEN S ELSE Closure(dg, T)

Reaches(dg, from, to) == to \in Closure(dg, {from})

HasEdge(dg, from, to) == from \in DOMAIN dg /\ contains(dg[from], to)

GraphQueried == last.op = "cachedMainImportsPackage"

\* C1: reverseDeps is the transpose of dependencyGraph: B lists A as a
\* dependent exactly when A's entry of dependencyGraph lists B.
C1_ReverseIsTranspose ==
    \A a, b \in Units :
        reverseDeps[b][a] > 0 <=> HasEdge(dependencyGraph, a, b)

\* ---- ownership calls
Called == last.op = "ThisFileIsMine"

\* The unit the file index of the cache resolves file f to (NoPkg: none).
Resolved(f) == (CHOOSE o \in findPackageForFile(G, f) : TRUE).pkg

\* The import graph the source tree declares, package by package.
TreeGraph ==
    [u \in GoodUnits(tree) |-> SortedSeq(ImportDir(tree, u).pkg.Imports)]

\* File h reaches unit u over the imports the tree declares.
TreeReaches(h, u) == \E d \in tree[h].imports : Reaches(TreeGraph, d, u)

\* The cache is what a population from the tree as it is now gives.
Fresh == cachedModule /\ \E o \in rebuildCache(G) : ~o.err /\ o.g = G

\* The step is the call ThisFileIsMine(h, f, event).
IsCall(h, f, event) ==
    /\ last'.op = "ThisFileIsMine"
    /\ last'.handler = h /\ last'.file = f /\ last'.event = event
    /\ tree' = tree

\* C2, before the edit: a handler whose main file does not import X is not
\* given a file of X.
C2_Before ==
    (/\ Called /\ ~last.err
     /\ last.file # last.handler
     /\ FileUnit(last.file) \in LibUnits
     /\ tree[last.file].st = "ok"
     /\ tree[last.handler].st = "ok"
     /\ ~TreeReaches(last.handler, FileUnit(last.file)))
    => ~last.res

\* C2, after the edit: once the write of the main file was delivered without
\* error, the next call for a file of a unit the main file now imports is
\* answered true.
C2_After ==
    \A h \in Handlers, f \in PlainFiles :
        (/\ Called /\ last.handler = h /\ last.file = h
         /\ last.event = "write" /\ ~last.err /\ last.res
         /\ IsCall(h, f, "write")
         /\ f # h
         /\ tree[f].st = "ok"
         /\ FileUnit(f) \in tree[h].imports)
        => last'.res /\ ~last'.err

\* C2: dynamic dependency detection: false before the main file imports X,
\* true after it was edited to import X and the write was delivered.
C2_DynamicDetection == [][C2_Before' /\ C2_After]_vars

C4_SelfIdentity ==
    (/\ Called
     /\ last.file = last.handler /\ last.event = "write"
     /\ tree[last.file].st = "ok")
    => last.res /\ ~last.err

\* C5: the same call made again, with no edit in between, gives the same
\* answer, and on a populated cache it leaves every cache structure as it was.
C5_Idempotent ==
    [][\A h \in Handlers, f \in PlainFiles, e \in EventNames :
          (Called /\ Repeats(h, f, e) /\ IsCall(h, f, e))
          => /\ last'.res = last.res /\ last'.err = last.err
             /\ cachedModule => G' = G]_vars

\* The catalog cannot answer what call c, made in this state, asks of it:
\* `go list` fails where the call has to list the packages (to populate the
\* cache, to rebuild it, or to find a file no cached package holds), or the
\* package of the written file cannot be imported again.
ListFails == \A l \in listPackages : l.err

CatalogFails(c) ==
    \/ /\ c.op = "updateCacheForFile"
       /\ ~cachedModule \/ CachedOwner(G, c.file) = {}
       /\ ListFails
    \/ /\ c.op = "updateCacheForFile" /\ c.event = "write"
       /\ cachedModule /\ CachedOwner(G, c.file) # {}
       /\ ImportDir(tree, PickPkg(CachedOwner(G, c.file))).err
    \/ /\ c.op = "ThisFileIsMine" /\ c.event = "write"
       /\ IsHandlerMainFile(c.handler, c.file)
       /\ tree[c.file].st = "ok"
       /\ ListFails

\* C6: when the catalog fails while a create or write event is applied, the
\* event returns an error, and an event that returns an error leaves every
\* cache structure, the populated flag included, as it was before the event.
C6_FailureLeavesCache ==
    [][(/\ last'.op \in {"ThisFileIsMine", "updateCacheForFile"}
        /\ last'.event \in {"create", "write"}
        /\ tree' = tree)
       => /\ CatalogFails(last') => last'.err
          /\ last'.err => G' = G]_vars

\* A write was reported for the file of a cached library that is cut off on
\* disk: the package was found in the cache and could not be imported again.
C6_Witness ==
    /\ last.op = "updateCacheForFile" /\ last.event = "write" /\ last.err
    /\ cachedModule
    /\ FileUnit(last.file) \in DOMAIN packageCache
    /\ tree[last.file].st = "bad"

\* C7: a file that resolves to a unit U that is no main unit is given to the
\* handler exactly when the handler's main file imports U or imports a unit
\* from which U is reached over the edges of dependencyGraph.
C7_ImportsDecide ==
    (/\ Called /\ ~last.err
     /\ cachedModule
     /\ tree[last.file].st = "ok"
     /\ ~IsHandlerMainFile(last.handler, last.file)
     /\ Resolved(last.file) # NoPkg
     /\ UnitName(Resolved(last.file)) # "main")
    => (last.res <=>
          \E d \in tree[last.handler].imports :
              Reaches(dependencyGraph, d, Resolved(last.file)))

\* The server main imports x, x imports y, and the file of y was given to it.
C7_Witness ==
    /\ Called /\ ~last.err /\ cachedModule
    /\ last.handler = "a/cmd/main.server.go" /\ last.file = "y/lib.go"
    /\ tree[last.file].st = "ok"
    /\ Resolved(last.file) = "mod/y"
    /\ tree[last.handler].imports = {"mod/x"}
    /\ HasEdge(dependencyGraph, "mod/x", "mod/y")
    /\ last.res

\* C8: a file that resolves to a main unit, and is not the handler's own main
\* file, is given to the handler exactly when the unit's directory is the
\* directory of the handler's main file.
C8_MainByDirectory ==
    (/\ Called /\ ~last.err
     /\ cachedModule
     /\ tree[last.file].st = "ok"
     /\ last.file # last.handler
     /\ Resolved(last.file) # NoPkg
     /\ UnitName(Resolved(last.file)) = "main")
    => (last.res <=> UnitDir(Resolved(last.file)) = FileDir(last.handler))

\* C9: when A depends on B and B depends on C, cachedMainImportsPackage(A, C)
\* is true, whatever else the graph holds (a cycle from C back to A included).
C9_TransitiveDependency ==
    (GraphQueried /\ \E b \in GraphUnits :
        HasEdge(dependencyGraph, last.mainPath, b)
        /\ HasEdge(dependencyGraph, b, last.targetPkg))
    => last.res

\* A -> B -> C -> A, A does not list C itself, and (A, C) was asked.
C9_Witness ==
    /\ GraphQueried
    /\ last.mainPath = "mod/a/cmd" /\ last.targetPkg = "mod/y"
    /\ HasEdge(dependencyGraph, "mod/a/cmd", "mod/x")
    /\ ~HasEdge(dependencyGraph, "mod/a/cmd", "mod/y")
    /\ HasEdge(dependencyGraph, "mod/x", "mod/y")
    /\ HasEdge(dependencyGraph, "mod/y", "mod/a/cmd")
    /\ last.res

\* C10: the search ends on every graph, self and mutual dependencies
\* included, and it answers false when the target cannot be reached.
C10_Terminates ==
    GraphQueried =>
        /\ ~last.diverged
        /\ ~Reaches(dependencyGraph, last.mainPath, last.targetPkg) => ~last.res

\* A depends on itself and on X, X depends back on A, Y is out of reach, and
\* (A, Y) was asked.
C10_Witness ==
    /\ GraphQueried
    /\ last.mainPath = "mod/a/cmd" /\ last.targetPkg = "mod/y"
    /\ HasEdge(dependencyGraph, "mod/a/cmd", "mod/a/cmd")
    /\ HasEdge(dependencyGraph, "mod/a/cmd", "mod/x")
    /\ HasEdge(dependencyGraph, "mod/x", "mod/a/cmd")
    /\ ~Reaches(dependencyGraph, "mod/a/cmd", "mod/y")
    /\ ~last.res /\ ~last.diverged

\* ---- cache events
\* The step is an event `event`, applied through either entry point without
\* an error, while the tree stays as it is.
IsEvent(event) ==
    /\ last'.op \in {"ThisFileIsMine", "updateCacheForFile"}
    /\ last'.event = event
    /\ ~last'.err
    /\ tree' = tree

\* C11: once a remove event for a deleted file has taken unit B out of the
\* graph (FileUnit of the file left dependencyGraph), no reverseDeps
\* entry names B as a dependent, and cachedMainImportsPackage(A, B) is false
\* for every other unit A.
C11_RemovedUnitGone ==
    [][\A b \in Units :
          (/\ IsEvent("remove")
           /\ tree[last'.file].st = "absent"
           /\ FileUnit(last'.file) = b
           /\ b \in DOMAIN dependencyGraph
           /\ b \notin DOMAIN dependencyGraph')
          => /\ \A x \in Units : reverseDeps'[x][b] = 0
             /\ \A a \in Units \ {b} :
                   ~cachedMainImportsPackage(dependencyGraph', a, b)]_vars

\* The file at path o was renamed and the rename is reported by the step: o
\* was in the exact-path index and is gone from the tree, and the event names
\* o itself or the path the file now has (same base name, another directory).
RenamedAway(o) ==
    /\ IsEvent("rename")
    /\ cachedModule
    /\ AbsKey(o) \in DOMAIN filePathToPackage
    /\ tree[o].st = "absent"
    /\ \/ last'.file = o
       \/ /\ last'.file # o
          /\ FileBase(last'.file) = FileBase(o)
          /\ tree[last'.file].st = "ok"

\* C12: after a rename event the old path resolves to no unit through the
\* file index, neither by its exact path nor by its base name.
C12_OldPathUnresolvable ==
    [][\A o \in Files :
          RenamedAway(o) => \A r \in findPackageForFile(G', o) : r.pkg = NoPkg]_vars

\* Path o is one of the two paths of the rename the step reports: the path
\* the event names (the new one: in the tree and not indexed yet), or the old
\* one (indexed and gone from the tree).
RenamePath(o) ==
    \/ /\ o = last'.file
       /\ tree[o].st = "ok"
       /\ AbsKey(o) \notin DOMAIN filePathToPackage
    \/ RenamedAway(o)

\* C13: a rename event is the remove step followed by the create step, and
\* in the state between the two steps the file index resolves neither the old
\* nor the new path of the file to a unit.
C13_RenameIsRemoveThenCreate ==
    [][(IsEvent("rename") /\ last'.op = "updateCacheForFile" /\ cachedModule)
       => /\ \E r \in handleFileRemove(G, last'.file) :
                ~r.err /\ \E c \in handleFileCreate(r.g, last'.file) : c.g = G'
          /\ \A r \in handleFileRemove(G, last'.file) : \A o \in Files :
                RenamePath(o) =>
                    \A q \in findPackageForFile(r.g, o) : q.pkg = NoPkg]_vars

\* The step is a write of the handler's own main file, applied without an
\* error by updateCacheForFileWithContext.
IsOwnWrite ==
    /\ IsEvent("write")
    /\ last'.op = "ThisFileIsMine"
    /\ IsHandlerMainFile(last'.handler, last'.file)

\* C14: after a write of the handler's own main file every cache structure
\* is what a population from the tree as it is now produces, whatever the
\* cache held before the event.
C14_OwnWriteRebuilds ==
    [][IsOwnWrite => \E o \in rebuildCache(G) : ~o.err /\ o.g = G']_vars

\* An incremental event had changed the cache, and the write of the server
\* main then replaced it by a rebuilt one.
C14_Witness ==
    /\ Called /\ ~last.err /\ last.event = "write"
    /\ IsHandlerMainFile(last.handler, last.file)
    /\ events > 0
    /\ ~last.pure
    /\ Fresh

\* The dependencies unit u declares in the tree as it is now, test imports
\* included when they are enabled.
Declared(u) ==
    LET p == ImportDir(tree, u).pkg
    IN p.Imports \cup (IF testImports THEN p.TestImports ELSE {})

\* The dependencies the cache lists for unit u.
Listed(dg, u) == IF u \in DOMAIN dg THEN Range(dg[u]) ELSE {}

\* The step is a write event, applied without an error to the populated
\* cache, for a file that is part of unit u.
IsUnitWrite(u) ==
    /\ IsEvent("write")
    /\ last'.op = "updateCacheForFile"
    /\ cachedModule
    /\ FileUnit(last'.file) = u
    /\ tree[last'.file].st = "ok"
    /\ FileKind(last'.file) = "go" \/ (FileKind(last'.file) = "test" /\ testImports)
    /\ ~ImportDir(tree, u).err

\* C15: a write to a file of unit U replaces U's forward edges by the
\* dependencies U declares now; U leaves the reverseDeps of every dependency
\* that was dropped, enters those of every dependency that was added, and
\* stays as it was in those of the dependencies that were kept.
C15_DiffUpdate ==
    [][\A u \in Units :
          IsUnitWrite(u)
          => /\ Listed(dependencyGraph', u) = Declared(u)
             /\ u \in DOMAIN dependencyGraph'
             /\ \A d \in Units :
                   LET old == d \in Listed(dependencyGraph, u)
                       new == d \in Declared(u)
                   IN /\ (old /\ ~new) => reverseDeps'[d][u] = 0
                      /\ (~old /\ new) => reverseDeps'[d][u] > 0
                      /\ (old /\ new) => reverseDeps'[d][u] = reverseDeps[d][u]]_vars

\* What C16 asks of a write step to a file of unit u.
WriteFrame(u) ==
    /\ \A v \in Units \ {u} :
          /\ (v \in DOMAIN dependencyGraph') = (v \in DOMAIN dependencyGraph)
          /\ v \in DOMAIN dependencyGraph => dependencyGraph'[v] = dependencyGraph[v]
    /\ \A d \in Units :
          (d \in Listed(dependencyGraph, u) <=> d \in Declared(u))
          => reverseDeps'[d] = reverseDeps[d]
    /\ filePathToPackage' = filePathToPackage
    /\ fileToPackages' = fileToPackages
    /\ mainPackages' = mainPackages
    /\ cachedModule' = cachedModule

Emptied(u) == \A f \in Files : FileUnit(f) = u => tree[f].st = "absent"

\* C17: a remove event for a deleted file that was indexed under unit U takes
\* the file out of filePathToPackage and U out of fileToPackages under the
\* file's base name; when no file of U is left, U has no entry in
\* dependencyGraph and no reverseDeps entry names it.
C17_RemoveDropsFile ==
    [][\A f \in Files :
          (/\ IsEvent("remove")
           /\ last'.file = f
           /\ cachedModule
           /\ tree[f].st = "absent"
           /\ AbsKey(f) \in DOMAIN filePathToPackage)
          => LET u == filePathToPackage[AbsKey(f)]
             IN /\ AbsKey(f) \notin DOMAIN filePathToPackage'
                /\ ~contains(MapSeq(fileToPackages', FileBase(f)), u)
                /\ Emptied(u) =>
                      /\ u \notin DOMAIN dependencyGraph'
                      /\ \A d \in Units : reverseDeps'[d][u] = 0]_vars

\* Number of times item occurs in slice.
Occurrences(slice, item) == Cardinality({i \in DOMAIN slice : slice[i] = item})

\* C18: a create event for a Go file of unit U records the file under U in
\* filePathToPackage and U exactly once under the file's base name in
\* fileToPackages; when U had no entry in dependencyGraph before, it has one
\* after the event, listing what U declares, with the matching reverseDeps.
C18_CreateIncorporates ==
    [][\A f \in Files :
          (/\ IsEvent("create")
           /\ last'.file = f
           /\ cachedModule
           /\ tree[f].st = "ok"
           /\ FileKind(f) = "go"
           /\ ~ImportDir(tree, FileUnit(f)).err)
          => LET u == FileUnit(f)
             IN /\ AbsKey(f) \in DOMAIN filePathToPackage'
                /\ filePathToPackage'[AbsKey(f)] = u
                /\ Occurrences(MapSeq(fileToPackages', FileBase(f)), u) = 1
                /\ u \notin DOMAIN dependencyGraph =>
                      /\ u \in DOMAIN dependencyGraph'
                      /\ Listed(dependencyGraph', u) = Declared(u)
                      /\ \A d \in Declared(u) : reverseDeps'[d][u] > 0]_vars

\* The call the step makes does not pass the input validation of
\* ThisFileIsMine: no file path, no handler path, or a handler main file that
\* is not on disk.
FailsValidation(c) ==
    \/ c.file = ""
    \/ c.handler = NoHandler
    \/ tree[c.handler].st = "absent"

\* C19: a call that does not pass the input validation returns (false,
\* error) and leaves every cache field, the populated flag included, as it
\* was; for an empty file path the error is "fileAbsPath cannot be empty".
C19_ValidationFirst ==
    [][(last'.op = "ThisFileIsMine" /\ tree' = tree /\ FailsValidation(last'))
       => /\ ~last'.res /\ last'.err
          /\ G' = G
          /\ last'.file = "" => last'.msg = "fileAbsPath cannot be empty"]_vars

\* ThisFileIsMine was called without a file path on the cold cache: the
\* error is returned and the cache is still not populated.
C19_Witness ==
    /\ Called
    /\ last.file = ""
    /\ last.err /\ ~last.res
    /\ last.msg = "fileAbsPath cannot be empty"
    /\ ~cachedModule

\* C20: a call that passes the input validation for a changed Go file that
\* is on disk and cannot be parsed (empty, or cut off in the middle of a
\* save) returns (false, nil) and leaves every cache field as it was.
C20_IncompleteFileSkipped ==
    [][(/\ last'.op = "ThisFileIsMine" /\ tree' = tree
        /\ ~FailsValidation(last')
        /\ tree[last'.file].st \in BrokenStates)
       => /\ ~last'.res /\ ~last'.err
          /\ G' = G]_vars

\* ---- unit resolution
\* The step is a call of ThisFileIsMine that reaches the unit resolution: it
\* passes the input validation, the changed file is on disk and complete and
\* is not the handler's own main file, and the cache is populated when the
\* call looks the file up.
IsResolution ==
    /\ last'.op = "ThisFileIsMine"
    /\ tree' = tree
    /\ ~FailsValidation(last')
    /\ tree[last'.file].st = "ok"
    /\ ~IsHandlerMainFile(last'.handler, last'.file)
    /\ cachedModule'

\* The unit the exact-path index of cache g holds for file f (NoPkg: none).
ExactUnit(g, f) ==
    IF AbsKey(f) \in DOMAIN g.filePathToPackage THEN g.filePathToPackage[AbsKey(f)]
    ELSE IF RelKey(f) \in DOMAIN g.filePathToPackage THEN g.filePathToPackage[RelKey(f)]
    ELSE NoPkg

\* The units the by-name index of cache g holds for the base name of file f.
NameUnits(g, f) == MapSeq(g.fileToPackages, FileBase(f))

\* C21: the resolver decides by the unit the exact-path index holds for the
\* file; only when that index does not hold the file, by the first unit the
\* by-name index holds for its base name; and when neither index knows the
\* file the call returns (false, nil).  A lookup never returns an error.
C21_ExactThenByName ==
    [][IsResolution
       => LET f == last'.file
              unit == IF ExactUnit(G', f) # NoPkg THEN ExactUnit(G', f)
                      ELSE IF NameUnits(G', f) # <<>> THEN NameUnits(G', f)[1]
                      ELSE NoPkg
          IN /\ ~last'.err
             /\ unit = NoPkg => ~last'.res
             /\ unit # NoPkg =>
                   \E b \in doesPackageBelongToHandler(G', unit, last'.handler) :
                       last'.res = b.res]_vars

\* The file of y is in the exact-path index under y while the by-name index
\* lists x first for its base name; the server main, which imports x alone,
\* asked for it and was refused.
C21_Witness ==
    /\ Called /\ ~last.err /\ ~last.res
    /\ last.handler = "a/cmd/main.server.go" /\ last.file = "y/lib.go"
    /\ tree[last.handler] = [st |-> "ok", imports |-> {"mod/x"}]
    /\ tree["y/lib.go"].st = "ok"
    /\ ExactUnit(G, "y/lib.go") = "mod/y"
    /\ NameUnits(G, "y/lib.go") # <<>>
    /\ NameUnits(G, "y/lib.go")[1] = "mod/x"

\* Neither index knows the file that was asked about: a soft miss.
C21_SoftMiss ==
    /\ Called /\ ~last.err /\ ~last.res
    /\ cachedModule
    /\ last.file # "" /\ last.handler # NoHandler
    /\ tree[last.file].st = "ok"
    /\ ExactUnit(G, last.file) = NoPkg
    /\ NameUnits(G, last.file) = <<>>

\* The step populates the cache (the first query or event of the process, or
\* the rebuild after a write of the handler's own main file).
Populates ==
    /\ last'.op \in {"ThisFileIsMine", "updateCacheForFile"}
    /\ tree' = tree
    /\ ~last'.err
    /\ \/ ~cachedModule /\ cachedModule'
       \/ last'.op = "ThisFileIsMine" /\ Rebuilds(last'.handler, last'.file, last'.event)

\* C22: every population of the cache from one and the same tree records
\* the units under each file name in the same order, so that the first
\* candidate of a file name is the same unit in every population: whenever a
\* step populates the cache from a tree that was populated from before, the
\* by-name index it leaves is the one the earlier population left.
C22_CandidateOrderDeterministic ==
    [][(/\ Populates
        /\ Fresh
        /\ \E o \in rebuildCache(G) : ~o.err /\ o.g = G')
       => fileToPackages' = fileToPackages]_vars

\* ---- the cache lifecycle
\* What C23 asks of one step.
LifecycleStep ==
    \* the flag changes in a query or an event, and in nothing else
    /\ cachedModule' # cachedModule =>
          /\ last'.op \in {"ThisFileIsMine", "updateCacheForFile"}
          /\ tree' = tree
    \* it is raised only where rebuildCache succeeds on the tree as it is
    /\ (~cachedModule /\ cachedModule') => \E o \in rebuildCache(G) : ~o.err
    \* it is never reset
    /\ cachedModule => cachedModule'
    \* on a populated cache a query rebuilds nothing: the cache stays as it
    \* is, in step with the tree or not
    /\ (/\ cachedModule
        /\ last'.op = "ThisFileIsMine" /\ tree' = tree
        /\ ~Rebuilds(last'.handler, last'.file, last'.event)
        /\ ~IsHandlerMainFile(last'.handler, last'.file))
       => G' = G /\ (~FailsValidation(last') => ~last'.err \/ last'.msg = "file validation failed")

\* C23: the populated flag is false after New; it becomes true only in a
\* query or an event, and only where rebuildCache succeeds; it is never reset
\* to false; and while it is true ensureCacheInitialized rebuilds nothing.
C23_Lifecycle == ~cachedModule /\ [][LifecycleStep]_vars

\* The cache was populated, the tree was edited since, so that a rebuild
\* would give another cache, and a query was answered from the cache as it
\* was.
C23_Witness ==
    /\ Called /\ ~last.err /\ last.pure
    /\ last.file # last.handler
    /\ cachedModule
    /\ edits > 0
    /\ \E o \in rebuildCache(G) : ~o.err
    /\ ~Fresh

\* ---- events delivered through the resolver
\* The step is a write event for a library file, a Go file of an importable
\* unit that is on disk and complete, delivered through ThisFileIsMine by a
\* handler without an error.
IsLibraryWrite ==
    /\ last'.op = "ThisFileIsMine"
    /\ tree' = tree
    /\ ~FailsValidation(last')
    /\ last'.event = "write"
    /\ ~last'.err
    /\ last'.file # last'.handler
    /\ FileUnit(last'.file) \in LibUnits
    /\ FileKind(last'.file) = "go"
    /\ tree[last'.file].st = "ok"
    /\ ~ImportDir(tree, FileUnit(last'.file)).err

\* C24: a write event for a library file delivered through ThisFileIsMine is
\* applied to the cache before the call answers: afterwards the cache lists
\* for the file's unit L the dependencies L declares now; and when the
\* handler's main file imports L, a following query of the handler for a file
\* of a unit L2 that L now imports returns true.
C24_EventAppliedForEveryFile ==
    [][IsLibraryWrite
       => LET h == last'.handler
              L == FileUnit(last'.file)
          IN /\ Listed(dependencyGraph', L) = Declared(L)
             /\ \A f2 \in Files :
                   (/\ L \in tree[h].imports
                    /\ FileUnit(f2) \in Declared(L)
                    /\ FileKind(f2) = "go"
                    /\ tree[f2].st = "ok")
                   => \A o \in ThisFileIsMineOutcomes(G', h, f2, "write") :
                         o.res /\ ~o.err]_vars

\* ---- invariants of the cache
\* Unit u is in the graph: it has its entry in packageCache and in
\* dependencyGraph.
InGraph(u) == u \in DOMAIN packageCache /\ u \in DOMAIN dependencyGraph

\* C25: every file of the exact-path index is recorded under a unit that is
\* in the graph, and every unit the by-name index lists is in the graph.
C25_IndexedUnitsInGraph ==
    /\ \A k \in DOMAIN filePathToPackage : InGraph(filePathToPackage[k])
    /\ \A n \in DOMAIN fileToPackages :
          \A u \in Range(fileToPackages[n]) : InGraph(u)

\* C26: every unit of mainPackages is in the graph.
C26_MainsInGraph == \A u \in Range(mainPackages) : InGraph(u)

\* ---- the catalog scan
\* The step is an event delivered to the finder while its cache is not
\* populated: updateCacheForFile starts with the population.
PopulationAttempt ==
    /\ last'.op = "updateCacheForFile"
    /\ tree' = tree
    /\ ~cachedModule

\* C27: a population from a tree in which at least one unit can be resolved
\* succeeds and holds the resolvable units (among them every resolvable main
\* unit), whatever other units cannot be resolved; a population from a tree
\* in which no unit can be resolved fails with an error.
C27_PartialSuccess ==
    [][PopulationAttempt
       => /\ GoodUnits(tree) # {} =>
                /\ cachedModule'
                /\ Range(mainPackages') = {u \in GoodUnits(tree) : UnitName(u) = "main"}
                /\ \A u \in DOMAIN packageCache' : u \in GoodUnits(tree)
          /\ GoodUnits(tree) = {} => last'.err /\ ~cachedModule']_vars

\* ---- the public queries
\* No element occurs twice in sequence s.
NoRepeats(s) == \A i, j \in DOMAIN s : s[i] = s[j] => i = j

\* C28: on a populated cache GoFileComesFromMain(fileName) returns, without
\* an error and each at most once, exactly the main packages from which a
\* package recorded under that file name is reached over the edges of
\* dependencyGraph; for a name recorded under no package, and for a name
\* whose packages no main reaches, that is the empty list.
C28_MainsOfFileName ==
    (last.op = "GoFileComesFromMain" /\ cachedModule)
    => /\ ~last.err
       /\ Range(last.res) =
             {m \in Range(mainPackages) :
                 \E p \in Range(MapSeq(fileToPackages, last.fileName)) :
                     Reaches(dependencyGraph, m, p)}
       /\ NoRepeats(last.res)
       /\ last.fileName \notin DOMAIN fileToPackages => last.res = <<>>

\* Both libraries hold a lib.go, the main of a/cmd reaches both of them and
\* the main of b/cmd neither, and lib.go was asked for.
C28_Witness ==
    /\ last.op = "GoFileComesFromMain" /\ last.fileName = "lib.go"
    /\ ~last.err
    /\ Range(MapSeq(fileToPackages, "lib.go")) = {"mod/x", "mod/y"}
    /\ Reaches(dependencyGraph, "mod/a/cmd", "mod/x")
    /\ Reaches(dependencyGraph, "mod/a/cmd", "mod/y")
    /\ ~Reaches(dependencyGraph, "mod/b/cmd", "mod/y")
    /\ last.res = <<"mod/a/cmd">>

\* The packages the patterns of a target list name.
TargetUnits(targetPaths) ==
    UNION {PatternUnits(targetPaths[k]) : k \in DOMAIN targetPaths}

\* C29: FindReverseDeps(source, targets) returns exactly the packages under
\* source from which a package of the target set is reached over the imports
\* the tree declares.
C29_ReverseDependents ==
    (last.op = "FindReverseDeps" /\ ~last.err)
    => last.res =
          {p \in PatternUnits(last.sourcePath) \cap GoodUnits(tree) :
              \E t \in TargetUnits(last.targetPaths) : Reaches(TreeGraph, p, t)}

\* C30: ValidateInputForProcessing returns (false, error) when the handler
\* path is empty; with a handler path, (false, nil) for a .go file that is on
\* disk and cannot be parsed (empty, comment-only, incomplete or invalid) and
\* (true, nil) for a .go file that parses and for every file that is no .go
\* file; and it never returns true together with an error.
C30_ThreeOutcomes ==
    last.op = "ValidateInputForProcessing"
    => /\ last.handler = NoHandler => ~last.ok /\ last.err
       /\ (/\ last.handler # NoHandler
           /\ last.file \in Files
           /\ tree[last.file].st \in BrokenStates)
          => ~last.ok /\ ~last.err
       /\ (/\ last.handler # NoHandler
           /\ last.file # ""
           /\ last.file \in Files => tree[last.file].st = "ok")
          => last.ok /\ ~last.err
       /\ ~(last.ok /\ last.err)

\* ---- coherence of the cache with the source tree
\* The caches a full rebuildCache produces from tree t, when every unit of t
\* that has files can be loaded.
Coherent(t) ==
    IF ErrUnits(t) # {} THEN {}
    ELSE {Rebuilt([u \in GoodUnits(t) |-> ImportDir(t, u).pkg], fo) :
            fo \in Orderings(GoodUnits(t))}

\* The states file f can have been in just before the change that event
\* `event` truthfully reports, given the state it is in now.
Before(f, event) ==
    LET saved == {[st |-> "ok", imports |-> imps] : imps \in ImportChoices(f)}
        gone == {[st |-> "absent", imports |-> {}]}
    IN CASE event = "create" -> IF tree[f].st = "ok" THEN gone ELSE {}
         [] event = "write" -> IF tree[f].st = "ok" THEN saved \ {tree[f]} ELSE {}
         [] event \in {"remove", "rename"} -> IF tree[f].st = "absent" THEN saved ELSE {}
         [] OTHER -> {}

\* The step delivers, without an error, the event that truthfully reports
\* the one change by which the tree differs from a tree the cache was
\* coherent with.
TruthfulEvent ==
    /\ last'.op = "updateCacheForFile"
    /\ tree' = tree
    /\ ~last'.err
    /\ cachedModule
    /\ \E prev \in Before(last'.file, last'.event) :
          G \in Coherent([tree EXCEPT ![last'.file] = prev])

\* C31: an event that truthfully reports a change of the tree takes a cache
\* that was coherent with the tree before the change to a cache that is
\* coherent with the tree after it: every structure equals what a full
\* rebuildCache over the current tree produces.
C31_CoherentAfterEvents ==
    [][TruthfulEvent => G' \in Coherent(tree)]_vars

\* Unit u has a file on disk, complete, besides file f.
HasOtherFiles(u, f) ==
    \E o \in Files \ {f} : FileUnit(o) = u /\ tree[o].st = "ok"

\* C32: a create event for a file that is on disk, or a remove event for a
\* file that is gone, leaves a unit that is in the graph and has other files
\* as it was: the same packageCache entry, the same forward edges, and the
\* same answer of every transitive-dependency query.
C32_UnitWithFilesKept ==
    [][\A u \in Units :
          (/\ IsEvent("create") \/ IsEvent("remove")
           /\ cachedModule
           /\ FileUnit(last'.file) = u
           /\ tree[last'.file].st = (IF last'.event = "create" THEN "ok" ELSE "absent")
           /\ HasOtherFiles(u, last'.file)
           /\ u \in DOMAIN packageCache /\ u \in DOMAIN dependencyGraph)
          => /\ u \in DOMAIN packageCache' /\ packageCache'[u] = packageCache[u]
             /\ u \in DOMAIN dependencyGraph' /\ dependencyGraph'[u] = dependencyGraph[u]
             /\ \A a, b \in Units :
                   cachedMainImportsPackage(dependencyGraph', a, b)
                   = cachedMainImportsPackage(dependencyGraph, a, b)]_vars

\* C33: whether New was given the root as a relative or as an absolute
\* path, a write event for the handler's own main file (on disk, complete,
\* delivered without an error) is answered true and leaves the cache that a
\* full rebuild from the tree as it is produces.
C33_SelfIdentityAnyRoot ==
    [][(/\ last'.op = "ThisFileIsMine"
        /\ tree' = tree
        /\ ~FailsValidation(last')
        /\ last'.file = last'.handler
        /\ last'.event = "write"
        /\ tree[last'.file].st = "ok"
        /\ ~last'.err)
       => /\ last'.res
          /\ \E o \in rebuildCache(G) : ~o.err /\ o.g = G']_vars

\* C34: a remove or rename event for a .go file that is no longer on disk,
\* delivered by a handler whose own main file is there, is answered without
\* an error.
C34_RemovedFileSkipped ==
    [][(/\ last'.op = "ThisFileIsMine"
        /\ tree' = tree
        /\ ~FailsValidation(last')
        /\ last'.event \in {"remove", "rename"}
        /\ tree[last'.file].st = "absent")
       => ~last'.err]_vars

\* C35: a write event for a file of a unit whose source did not change
\* since the cache was rebuilt from it (the cache is what a rebuild from the
\* tree gives, and the file is one the cache holds) leaves dependencyGraph
\* and reverseDeps exactly as the rebuild left them, with test imports
\* enabled or disabled.
C35_RefreshAgreesWithRebuild ==
    [][\A u \in Units :
          (/\ IsUnitWrite(u)
           /\ CachedOwner(G, last'.file) # {}
           /\ Fresh)
          => /\ dependencyGraph' = dependencyGraph
             /\ reverseDeps' = reverseDeps]_vars

\* The step is a call of ThisFileIsMine that passes the validation of its
\* inputs (steps 1 to 4) and so asks for the cache, made on the cold cache.
ColdQuery ==
    /\ last'.op = "ThisFileIsMine"
    /\ tree' = tree
    /\ ~cachedModule
    /\ last'.file # "" /\ last'.handler # NoHandler
    /\ tree[last'.handler].st # "absent"
    /\ ~IsValidGoFile(last'.file).err /\ IsValidGoFile(last'.file).valid

\* C36: a population that fails leaves the cache empty: the call that
\* asked for it returns an error, the populated flag stays false and every
\* map is what it was; and a call on a cache that is not populated (whether
\* or not a population failed on it before: the failure left no trace)
\* attempts the population again, which succeeds as soon as the catalog
\* answers.
C36_FailedPopulationRetried ==
    [][ColdQuery
       => IF ListFails
          THEN last'.err /\ ~cachedModule' /\ G' = G
          ELSE cachedModule' /\ ~last'.err]_vars

\* A population has failed: the call returned the listing error and the
\* cache is still not populated.
C36_Witness ==
    /\ last.op = "ThisFileIsMine" /\ last.err
    /\ last.msg \in {"failed to list packages", "cache update failed"}
    /\ ~cachedModule /\ ListFails
    /\ DOMAIN packageCache = {} /\ DOMAIN filePathToPackage = {}

\* The step is a call of ThisFileIsMine whose event string is none of
\* write, create, remove and rename.
IsOtherEvent ==
    /\ last'.op = "ThisFileIsMine"
    /\ last'.event \notin CacheEvents
    /\ tree' = tree

\* C37: a call with an event string other than write, create, remove and
\* rename changes no cache structure of a populated cache, and on a cache
\* that is not populated does nothing but populate it; and the call still
\* answers: for the handler's own main file, valid on disk, it returns
\* without an error whenever the cache is or can be populated, and returns
\* true where the file is recognised as the handler's own.
C37_OtherEventMutatesNothing ==
    [][IsOtherEvent
       => /\ cachedModule => G' = G
          /\ ~cachedModule => G' = G \/ G' \in {o.g : o \in rebuildCache(G)}
          /\ (/\ last'.file = last'.handler
              /\ tree[last'.file].st = "ok"
              /\ cachedModule \/ ~ListFails)
             => /\ ~last'.err
                /\ IsHandlerMainFile(last'.handler, last'.file) => last'.res]_vars

\* The "check" event was delivered for the handler's own main file on a
\* populated cache that no longer tells what is on disk.
C37_Witness ==
    /\ last.op = "ThisFileIsMine" /\ last.event = "check"
    /\ last.file = last.handler /\ ~rootRel
    /\ last.res /\ ~last.err
    /\ cachedModule /\ ~Fresh

\* ---- the reverse-dependency loop
\* C38: a run of the loop of FindReverseDeps that returns gives the same
\* set of packages as every other run over the same packages and targets
\* that returns, whatever the order in which the two visit the packages,
\* with test imports enabled or disabled.
C38_OrderIndependent ==
    (last.op = "FindReverseDeps" /\ "order" \in DOMAIN last /\ ~last.diverged)
    => \A fo \in Orderings(DOMAIN last.packages) :
          LET r == FindReverseDepsRange(fo, last.packages, last.targets)
          IN ~r.diverged => r.res = last.res

\* C39: the loop of FindReverseDeps returns for every set of loaded
\* packages, a package that imports itself and two packages that import
\* each other included.
C39_ReverseDepsTerminates ==
    (last.op = "FindReverseDeps" /\ "order" \in DOMAIN last) => ~last.diverged

====
